---- MODULE Spec2Model ----
(***************************************************************************)
(* Buffer pool manager (buffer_pool_manager.cpp) and LRU replacer          *)
(* (lru_replacer.cpp) of simpleDB, as a state machine.  Every pool         *)
(* operation runs under the pool latch (std::lock_guard on latch_), so     *)
(* one call is one atomic action.                                          *)
(***************************************************************************)
EXTENDS Integers, Sequences, FiniteSets, TLC

(* ------------------------------ bounds --------------------------------- *)
\* page ids: 0 .. MaxPage
MaxPage == 2
\* the database file holds the pages 0 .. OldPages - 1 when the pool is
\* constructed; AllocatePage hands out OldPages, OldPages + 1, ...
OldPages == 1
\* a frame is pinned at most MaxPin times at once
MaxPin == 2
\* the free list holds at most MaxFree entries (DeletePage can push a
\* frame that is already in it)
MaxFree == 2
\* callers write at most MaxData byte patterns, 1 .. MaxData, each once;
\* 0 is zeroed memory
MaxData == 1
\* a replacer used on its own receives at most MaxCalls calls
MaxCalls == 5

(* --------------------------- program constants ------------------------- *)
\* BufferPoolManager(pool_size, ...): number of frames
pool_size_ == 2
\* config.h: page id of a frame that holds no page
INVALID_PAGE_ID == -1
\* frame_id_t frame_id = -1: no frame selected, nullptr returned
NoFrame == -1

Frames == 0 .. (pool_size_ - 1)
PageIds == 0 .. MaxPage
Data == 0 .. MaxData

VARIABLES
  pages_,        \* Page pages_[pool_size_]: page_id_, pin_count_, is_dirty_, data_
  page_table_,   \* std::unordered_map<page_id_t, frame_id_t>
  free_list_,    \* std::list<frame_id_t>
  replacer_,     \* LRUReplacer: list L..R (front = most recent), hash, size
  disk,          \* disk manager: the bytes stored under each page id
  next_page_id,  \* disk manager: the id the next AllocatePage returns
  next_data,     \* callers: the next byte pattern to write
  call,          \* the last call made: op, page_id, is_dirty
  result,        \* what the last call returned: ok, frame, page_id
  io,            \* the disk manager calls the last call issued, in order
  trip,          \* the pages whose round trip through eviction is followed
  lru_calls,     \* the calls made to a replacer that is used on its own, in order
  threads        \* the threads that call the pool concurrently: pc, page_id, frame, reads

vars == <<pages_, page_table_, free_list_, replacer_, disk, next_page_id, next_data,
          call, result, io, trip, lru_calls, threads>>

(* ------------------------------ helpers -------------------------------- *)
\* std::unordered_map::erase(key): no effect when the key is absent
erase(table, key) == [k \in (DOMAIN table) \ {key} |-> table[k]]

\* table[key] = value
assign(table, key, value) ==
  [k \in (DOMAIN table) \cup {key} |-> IF k = key THEN value ELSE table[k]]

\* Rebind without the erase of the frame's old page id
Rebind_keepsOld(table, old_page_id, page_id, frame_id) ==
  assign(table, page_id, frame_id)

\* page_table_.erase(old_page_id); page_table_[page_id] = frame_id
\* (FetchPageImpl lines 70-71, NewPageImpl lines 133 and 139)
Rebind(table, old_page_id, page_id, frame_id) ==
  assign(erase(table, old_page_id), page_id, frame_id)

\* Page::ResetMemory(): zero the data buffer, and nothing else
ResetMemory(page) == [page EXCEPT !.data_ = 0]

\* a Page as constructed
EmptyPage ==
  [page_id_ |-> INVALID_PAGE_ID, pin_count_ |-> 0, is_dirty_ |-> FALSE, data_ |-> 0]

\* the disk manager calls, as log entries
WritePage(page_id, data) == [fn |-> "WritePage", page_id |-> page_id, data |-> data]
ReadPage(page_id, data) == [fn |-> "ReadPage", page_id |-> page_id, data |-> data]
AllocatePage(page_id) == [fn |-> "AllocatePage", page_id |-> page_id, data |-> 0]

\* every order in which the elements of S can be visited
Orders(S) ==
  {s \in [1 .. Cardinality(S) -> S] : \A i, j \in DOMAIN s : i # j => s[i] # s[j]}

(* ----------------------------- LRUReplacer ----------------------------- *)
\* LRUReplacer(num_pages): empty list between the sentinels L and R
NewReplacer == [list |-> <<>>, hash |-> {}, size |-> 0]

\* a capacity smaller than the number of frames of the pool
capcity_short == pool_size_ - 1

\* capcity = num_pages, and the pool constructs LRUReplacer(pool_size)
capcity == pool_size_

Size(r) == r.size

\* remove(p) and hash.erase(p->key)
remove(r, key) ==
  [list |-> SelectSeq(r.list, LAMBDA k : k # key),
   hash |-> r.hash \ {key},
   size |-> r.size - 1]

\* hash[frame_id] = p and insert(p): p becomes L->right
insert(r, key) ==
  [list |-> <<key>> \o r.list, hash |-> r.hash \cup {key}, size |-> r.size + 1]

\* Victim(&frame_id): R->left leaves the list
Victim(r) ==
  IF Size(r) = 0
    THEN [isExit |-> FALSE, frame_id |-> NoFrame, replacer |-> r]
    ELSE LET key == r.list[Len(r.list)]
         IN  [isExit |-> TRUE, frame_id |-> key, replacer |-> remove(r, key)]

Pin(r, frame_id) ==
  IF frame_id \in r.hash THEN remove(r, frame_id) ELSE r

Unpin(r, frame_id) ==
  IF frame_id \in r.hash
    THEN r
    ELSE IF Cardinality(r.hash) = capcity
           THEN insert(remove(r, r.list[Len(r.list)]), frame_id)
           ELSE insert(r, frame_id)

(* ------------------------------- callers ------------------------------ *)
\* no call is in progress: the last result has been taken by its caller
NoCall == [op |-> "idle", page_id |-> INVALID_PAGE_ID, is_dirty |-> FALSE]
NoResult == [ok |-> FALSE, frame |-> NoFrame, page_id |-> INVALID_PAGE_ID]

\* a page that is followed: created by NewPage and still pinned by its creator
\* ("created"), then handed back with Unpin(p, true) holding the bytes data
\* ("unpinned"), then fetched again after its eviction ("fetched")
NotFollowed == [phase |-> "none", data |-> 0]

\* the round trip of the followed pages after the call op(page_id, is_dirty),
\* which is made in the current state; any other call on a followed page ends
\* its round trip
Followed(op, page_id, is_dirty) ==
  IF op = "NewPage"
    THEN IF next_page_id \in DOMAIN trip /\ (Len(free_list_) # 0 \/ replacer_.size > 0)
           THEN [trip EXCEPT ![next_page_id] = [phase |-> "created", data |-> 0]]
           ELSE trip
  ELSE IF page_id \notin DOMAIN trip \/ op \notin {"FetchPage", "UnpinPage"}
    THEN trip
  ELSE IF trip[page_id].phase = "created"
    THEN IF op = "UnpinPage" /\ is_dirty /\ page_id \in DOMAIN page_table_
              /\ pages_[page_table_[page_id]].pin_count_ = 1
           THEN [trip EXCEPT ![page_id] =
                   [phase |-> "unpinned", data |-> pages_[page_table_[page_id]].data_]]
           ELSE [trip EXCEPT ![page_id] = NotFollowed]
  ELSE IF trip[page_id].phase = "unpinned" /\ op = "FetchPage"
    THEN IF page_id \in DOMAIN page_table_
           THEN [trip EXCEPT ![page_id] = NotFollowed]
           ELSE IF Len(free_list_) # 0 \/ replacer_.size > 0
             THEN [trip EXCEPT ![page_id].phase = "fetched"]
             ELSE trip
  ELSE IF trip[page_id].phase = "fetched"
    THEN [trip EXCEPT ![page_id] = NotFollowed]
  ELSE trip

\* the threads of a concurrent Fetch
Threads == {"A", "B"}

\* std::lock_guard<std::mutex> lock(latch_) with threads waiting in
\* FetchPage(page_id): any one of them gets the latch, and no other call is
\* made meanwhile; without such threads the call is that of a single caller
Locked(op, page_id) ==
  IF threads = <<>>
    THEN {threads}
    ELSE {[threads EXCEPT ![t].pc = "running"] :
            t \in {u \in Threads : /\ op = "FetchPage"
                                   /\ threads[u].pc = "waiting"
                                   /\ threads[u].page_id = page_id}}

\* the thread that holds the latch returns: it has the frame and has issued
\* the ReadPage calls of its call
Unlocked ==
  IF threads = <<>>
    THEN threads
    ELSE [t \in Threads |->
            IF threads[t].pc = "running"
              THEN [threads[t] EXCEPT
                      !.pc = "returned",
                      !.frame = result.frame,
                      !.reads = Cardinality({i \in DOMAIN io : io[i].fn = "ReadPage"})]
              ELSE threads[t]]

\* a call op(page_id, is_dirty) is made: the pool is ready for it
Calls(op, page_id, is_dirty) ==
  /\ call = NoCall
  /\ call' = [op |-> op, page_id |-> page_id, is_dirty |-> is_dirty]
  /\ trip' = Followed(op, page_id, is_dirty)
  /\ UNCHANGED lru_calls
  /\ \E th \in Locked(op, page_id) : threads' = th

\* the call returns: a Page* (frame, nullptr = NoFrame) or a bool (ok), and
\* NewPage its *page_id
Returns(ok, frame, page_id) ==
  result' = [ok |-> ok, frame |-> frame, page_id |-> page_id]

(* --------------------------- BufferPoolManager ------------------------- *)
\* the pool and the disk manager as constructed, no call made yet
Constructed ==
  /\ pages_ = [f \in Frames |-> EmptyPage]
  /\ page_table_ = <<>>
  /\ free_list_ = [i \in 1 .. pool_size_ |-> i - 1]
  /\ replacer_ = NewReplacer
  /\ disk = [p \in PageIds |-> 0]
  /\ next_page_id = OldPages
  /\ next_data = 1
  /\ call = NoCall
  /\ result = NoResult
  /\ io = <<>>
  /\ lru_calls = <<>>
  /\ threads = <<>>

Init ==
  /\ Constructed
  /\ trip = <<>>

\* the pool as constructed, every page that NewPage creates being followed
InitRoundTrip ==
  /\ Constructed
  /\ trip = [p \in PageIds |-> NotFollowed]

\* the disk after the calls of log, applied in order
RECURSIVE DiskAfter(_, _)
DiskAfter(d, log) ==
  IF log = <<>> THEN d
  ELSE LET e == Head(log)
       IN  DiskAfter(IF e.fn = "WritePage" THEN [d EXCEPT ![e.page_id] = e.data] ELSE d,
                     Tail(log))

\* lines 61-77 of FetchPageImpl: frame_id has been selected
FetchInstall(page_id, frame_id, free, rep, table) ==
  LET p == pages_[frame_id]
      wb == IF p.is_dirty_ THEN <<WritePage(p.page_id_, p.data_)>> ELSE <<>>
      d1 == DiskAfter(disk, wb)
  IN  /\ pages_' = [pages_ EXCEPT ![frame_id] =
                      [page_id_ |-> page_id, pin_count_ |-> 1,
                       is_dirty_ |-> FALSE, data_ |-> d1[page_id]]]
      /\ page_table_' = Rebind(table, p.page_id_, page_id, frame_id)
      /\ free_list_' = free
      /\ replacer_' = rep
      /\ disk' = d1
      /\ io' = wb \o <<ReadPage(page_id, d1[page_id])>>
      /\ Returns(TRUE, frame_id, page_id)
      /\ UNCHANGED <<next_page_id, next_data>>

\* Pinned that sets pin_count_ to 1
Pinned_once(page) == [page EXCEPT !.pin_count_ = 1]

\* p->pin_count_++ of a page that is in the page table
Pinned(page) == [page EXCEPT !.pin_count_ = @ + 1]

FetchPageImpl(page_id) ==
  /\ Calls("FetchPage", page_id, FALSE)
  /\ IF page_id \in DOMAIN page_table_
       THEN LET frame_id == page_table_[page_id]
            IN  /\ pages_[frame_id].pin_count_ < MaxPin
                /\ replacer_' = Pin(replacer_, frame_id)
                /\ pages_' = [pages_ EXCEPT ![frame_id] = Pinned(@)]
                /\ Returns(TRUE, frame_id, page_id)
                /\ io' = <<>>
                /\ UNCHANGED <<page_table_, free_list_, disk, next_page_id, next_data>>
       ELSE IF free_list_ # <<>>
         THEN FetchInstall(page_id, Head(free_list_), Tail(free_list_),
                           replacer_, page_table_)
         ELSE IF Size(replacer_) > 0
           THEN LET v == Victim(replacer_)
                IN  FetchInstall(page_id, v.frame_id, free_list_, v.replacer,
                                 erase(page_table_, pages_[v.frame_id].page_id_))
           ELSE /\ Returns(FALSE, NoFrame, page_id)
                /\ io' = <<>>
                /\ UNCHANGED <<pages_, page_table_, free_list_, replacer_,
                               disk, next_page_id, next_data>>

\* Unpinned with is_dirty_ = is_dirty in place of |=
Unpinned_overwritesDirty(page, is_dirty) ==
  [page EXCEPT !.pin_count_ = @ - 1, !.is_dirty_ = is_dirty]

\* page->pin_count_--; page->is_dirty_ |= is_dirty
Unpinned(page, is_dirty) ==
  [page EXCEPT !.pin_count_ = @ - 1, !.is_dirty_ = @ \/ is_dirty]

\* UnpinWrite that writes nothing
UnpinWrite_never(page_id, data, is_dirty) == <<>>

\* if (is_dirty) disk_manager_->WritePage(page_id, page->GetData())
UnpinWrite(page_id, data, is_dirty) ==
  IF is_dirty THEN <<WritePage(page_id, data)>> ELSE <<>>

UnpinPageImpl(page_id, is_dirty) ==
  /\ Calls("UnpinPage", page_id, is_dirty)
  /\ UNCHANGED <<page_table_, free_list_, next_page_id, next_data>>
  /\ IF page_id \notin DOMAIN page_table_ \/ pages_[page_table_[page_id]].pin_count_ <= 0
       THEN /\ Returns(FALSE, NoFrame, page_id)
            /\ io' = <<>>
            /\ UNCHANGED <<pages_, replacer_, disk>>
       ELSE LET fid == page_table_[page_id]
                page == pages_[fid]
                wb == UnpinWrite(page_id, page.data_, is_dirty)
            IN  /\ io' = wb
                /\ disk' = DiskAfter(disk, wb)
                /\ pages_' = [pages_ EXCEPT ![fid] = Unpinned(page, is_dirty)]
                /\ replacer_' = IF Unpinned(page, is_dirty).pin_count_ <= 0
                                  THEN Unpin(replacer_, fid) ELSE replacer_
                /\ Returns(TRUE, NoFrame, page_id)

\* Flushed that leaves is_dirty_ as it was
Flushed_keepsDirty(page) == page

\* page->is_dirty_ = false
Flushed(page) == [page EXCEPT !.is_dirty_ = FALSE]

FlushPageImpl(page_id) ==
  /\ Calls("FlushPage", page_id, FALSE)
  /\ UNCHANGED <<page_table_, free_list_, replacer_, next_page_id, next_data>>
  /\ IF page_id \notin DOMAIN page_table_
       THEN /\ Returns(FALSE, NoFrame, page_id)
            /\ io' = <<>>
            /\ UNCHANGED <<pages_, disk>>
       ELSE LET fid == page_table_[page_id]
                wb == <<WritePage(page_id, pages_[fid].data_)>>
            IN  /\ io' = wb
                /\ disk' = DiskAfter(disk, wb)
                /\ pages_' = [pages_ EXCEPT ![fid] = Flushed(@)]
                /\ Returns(TRUE, NoFrame, page_id)

\* lines 132-140 of NewPageImpl: frame_id has been selected
NewInstall(page_id, frame_id, free, rep, table) ==
  LET p == pages_[frame_id]
  IN  /\ p.pin_count_ < MaxPin
      /\ pages_' = [pages_ EXCEPT ![frame_id] =
                      [p EXCEPT !.page_id_ = page_id,
                                !.pin_count_ = @ + 1,
                                !.is_dirty_ = TRUE]]
      /\ page_table_' = Rebind(table, p.page_id_, page_id, frame_id)
      /\ free_list_' = free
      /\ replacer_' = rep
      /\ Returns(TRUE, frame_id, page_id)

NewPageImpl ==
  /\ next_page_id <= MaxPage
  /\ Calls("NewPage", INVALID_PAGE_ID, FALSE)
  /\ next_page_id' = next_page_id + 1
  /\ io' = <<AllocatePage(next_page_id)>>
  /\ UNCHANGED <<disk, next_data>>
  /\ IF Len(free_list_) # 0
       THEN NewInstall(next_page_id, Head(free_list_), Tail(free_list_),
                       replacer_, page_table_)
       ELSE IF Size(replacer_) > 0
         THEN LET v == Victim(replacer_)
              IN  NewInstall(next_page_id, v.frame_id, free_list_, v.replacer,
                             erase(page_table_, pages_[v.frame_id].page_id_))
         ELSE /\ Returns(FALSE, NoFrame, next_page_id)
              /\ UNCHANGED <<pages_, page_table_, free_list_, replacer_>>

\* DeleteCheck with the pin test inverted: pin_count <= 0 refuses
DeleteCheck_inverted(page_id) ==
  IF page_id \notin DOMAIN page_table_ THEN "absent"
  ELSE IF pages_[page_table_[page_id]].pin_count_ <= 0 THEN "pinned"
  ELSE "unpinned"

\* lines 150-153 of DeletePageImpl: what the call finds
DeleteCheck(page_id) ==
  IF page_id \notin DOMAIN page_table_ THEN "absent"
  ELSE IF pages_[page_table_[page_id]].pin_count_ # 0 THEN "pinned"
  ELSE "unpinned"

DeletePageImpl(page_id) ==
  /\ Calls("DeletePage", page_id, FALSE)
  /\ io' = <<>>
  /\ UNCHANGED <<replacer_, disk, next_page_id, next_data>>
  /\ IF DeleteCheck(page_id) = "absent"
       THEN /\ Returns(TRUE, NoFrame, page_id)
            /\ UNCHANGED <<pages_, page_table_, free_list_>>
       ELSE LET fid == page_table_[page_id]
            IN  IF DeleteCheck(page_id) = "pinned"
                  THEN /\ Returns(FALSE, NoFrame, page_id)
                       /\ UNCHANGED <<pages_, page_table_, free_list_>>
                  ELSE /\ Len(free_list_) < MaxFree
                       /\ page_table_' = erase(page_table_, fid)
                       /\ pages_' = [pages_ EXCEPT ![fid] = ResetMemory(@)]
                       /\ free_list_' = Append(free_list_, fid)
                       /\ Returns(TRUE, NoFrame, page_id)

FlushAllPagesImpl ==
  /\ Calls("FlushAllPages", INVALID_PAGE_ID, FALSE)
  /\ \E order \in Orders({pid \in DOMAIN page_table_ :
                            ~pages_[page_table_[pid]].is_dirty_}) :
       LET wb == [i \in DOMAIN order |->
                    WritePage(order[i], pages_[page_table_[order[i]]].data_)]
       IN  /\ io' = wb
           /\ disk' = DiskAfter(disk, wb)
  /\ page_table_' = <<>>
  /\ Returns(TRUE, NoFrame, INVALID_PAGE_ID)
  /\ UNCHANGED <<pages_, free_list_, replacer_, next_page_id, next_data>>

\* a caller that holds a pin on frame_id writes bytes through Page::GetData()
WriteData(frame_id) ==
  /\ pages_[frame_id].pin_count_ > 0
  /\ next_data <= MaxData
  /\ next_data' = next_data + 1
  /\ pages_' = [pages_ EXCEPT ![frame_id].data_ = next_data]
  /\ Calls("GetData", INVALID_PAGE_ID, FALSE)
  /\ Returns(TRUE, frame_id, pages_[frame_id].page_id_)
  /\ io' = <<>>
  /\ UNCHANGED <<page_table_, free_list_, replacer_, disk, next_page_id>>

\* the caller takes the result of its call; the next call can be made
Return ==
  /\ call # NoCall
  /\ call' = NoCall
  /\ result' = NoResult
  /\ io' = <<>>
  /\ UNCHANGED <<pages_, page_table_, free_list_, replacer_, disk, next_page_id, next_data,
                 trip, lru_calls>>
  /\ threads' = Unlocked

\* the page ids a caller can name: those of the pages that exist
Allocated == {page_id \in PageIds : page_id < next_page_id}

Next ==
  \/ \E page_id \in Allocated : FetchPageImpl(page_id)
  \/ \E page_id \in Allocated, is_dirty \in BOOLEAN : UnpinPageImpl(page_id, is_dirty)
  \/ \E page_id \in Allocated : FlushPageImpl(page_id)
  \/ NewPageImpl
  \/ \E page_id \in Allocated : DeletePageImpl(page_id)
  \/ FlushAllPagesImpl
  \/ Return

\* the pool never reads the bytes of a page, so no branch it takes depends on
\* them: Spec has the callers that only read the pages they pin, SpecData
\* those that also write them
NextData ==
  \/ Next
  \/ \E frame_id \in Frames : WriteData(frame_id)

\* the calls of a round trip through eviction: NewPage, the caller's writes,
\* Unpin and Fetch
NextRoundTrip ==
  \/ \E page_id \in Allocated : FetchPageImpl(page_id)
  \/ \E page_id \in Allocated, is_dirty \in BOOLEAN : UnpinPageImpl(page_id, is_dirty)
  \/ NewPageImpl
  \/ \E frame_id \in Frames : WriteData(frame_id)
  \/ Return

\* the frame ids a replacer used on its own is called with: one more than its
\* capacity, a frame_id_t being any int32
LruFrames == 0 .. capcity

\* a call to the replacer and what it returned
LruCall(fn, frame_id, ok) == [fn |-> fn, frame_id |-> frame_id, ok |-> ok]

\* what the pool does not do while the replacer is used on its own
PoolIdle ==
  UNCHANGED <<pages_, page_table_, free_list_, disk, next_page_id, next_data,
              call, result, io, trip, threads>>

\* replacer.Unpin(frame_id)
UnpinCall(frame_id) ==
  /\ Len(lru_calls) < MaxCalls
  /\ replacer_' = Unpin(replacer_, frame_id)
  /\ lru_calls' = Append(lru_calls, LruCall("Unpin", frame_id, TRUE))
  /\ PoolIdle

\* replacer.Pin(frame_id)
PinCall(frame_id) ==
  /\ Len(lru_calls) < MaxCalls
  /\ replacer_' = Pin(replacer_, frame_id)
  /\ lru_calls' = Append(lru_calls, LruCall("Pin", frame_id, TRUE))
  /\ PoolIdle

\* replacer.Victim(&frame_id)
VictimCall ==
  /\ Len(lru_calls) < MaxCalls
  /\ LET v == Victim(replacer_)
     IN  /\ replacer_' = v.replacer
         /\ lru_calls' = Append(lru_calls, LruCall("Victim", v.frame_id, v.isExit))
  /\ PoolIdle

NextReplacer ==
  \/ \E frame_id \in LruFrames : UnpinCall(frame_id)
  \/ \E frame_id \in LruFrames : PinCall(frame_id)
  \/ VictimCall

\* two threads call FetchPage(page_id) at the same time, for a page that is
\* not in the page table while a frame is available
StartFetches(page_id) ==
  /\ threads = <<>>
  /\ call = NoCall
  /\ page_id \notin DOMAIN page_table_
  /\ free_list_ # <<>> \/ Size(replacer_) > 0
  /\ threads' = [t \in Threads |->
                  [pc |-> "waiting", page_id |-> page_id, frame |-> NoFrame, reads |-> 0]]
  /\ UNCHANGED <<pages_, page_table_, free_list_, replacer_, disk, next_page_id,
                 next_data, call, result, io, trip, lru_calls>>

\* the pool with a single caller until two threads fetch the same page
NextThreads ==
  \/ Next
  \/ \E page_id \in Allocated : StartFetches(page_id)

Spec == Init /\ [][Next]_vars

SpecThreads == Init /\ [][NextThreads]_vars

\* an LRUReplacer(pool_size_) used on its own
SpecReplacer == Init /\ [][NextReplacer]_vars

SpecData == Init /\ [][NextData]_vars

SpecRoundTrip == InitRoundTrip /\ [][NextRoundTrip]_vars
(* ------------------------------- claims -------------------------------- *)
\* frame f is the target of a page-table entry
InPageTable(f) == \E p \in DOMAIN page_table_ : page_table_[p] = f
\* frame f is in the free list
InFreeList(f) == \E i \in DOMAIN free_list_ : free_list_[i] = f
\* frame f is tracked by the replacer
Tracked(f) == f \in replacer_.hash
\* every frame of the pool is pinned
AllPinned == \A f \in Frames : pages_[f].pin_count_ > 0
\* the entries of a log of disk manager calls
Issued(log) == {log[i] : i \in DOMAIN log}

\* C1 (pin contract): no step changes the page_id of a frame whose pin_count
\* is > 0, that is, Fetch and NewPage never take a pinned frame as the
\* replacement frame.
C1_PinnedFrameKeepsPage ==
  [][\A f \in Frames :
       pages_[f].pin_count_ > 0 => pages_'[f].page_id_ = pages_[f].page_id_]_vars

\* C2 (I3): a frame is tracked by the replacer if and only if it is the target
\* of a page-table entry and its pin_count is 0.
C2_I3 ==
  \A f \in Frames : Tracked(f) <=> (InPageTable(f) /\ pages_[f].pin_count_ = 0)

\* C3 (I2): every frame is in the free list or the target of a page-table
\* entry, and never both and never neither.
C3_I2 ==
  \A f \in Frames : InFreeList(f) <=> ~InPageTable(f)

\* C4 (I5): if the page table maps page id p to frame f, then frame f's
\* page_id is p.
C4_I5 ==
  \A p \in DOMAIN page_table_ : pages_[page_table_[p]].page_id_ = p

\* C4's case: a Fetch miss has written back a dirty frame and given it to
\* another page, and the page table maps that page to the frame.
C4_Witness ==
  /\ call.op = "FetchPage"
  /\ Len(io) = 2
  /\ call.page_id \in DOMAIN page_table_
  /\ page_table_[call.page_id] = result.frame
  /\ Cardinality(DOMAIN page_table_) > 1

\* C5 (I6): a step that gives a dirty frame to another page id first writes
\* the frame's bytes to disk under the old page id.
C5_DirtyWrittenBack ==
  [][\A f \in Frames :
       (pages_[f].is_dirty_ /\ pages_'[f].page_id_ # pages_[f].page_id_)
         => WritePage(pages_[f].page_id_, pages_[f].data_) \in Issued(io')]_vars

\* C6 (capacity exhaustion): when every frame is pinned, Fetch of a page id
\* that is not in the page table returns none, and NewPage returns none.
C6_Exhausted ==
  [][(/\ AllPinned
      /\ \/ call'.op = "FetchPage" /\ call'.page_id \notin DOMAIN page_table_
         \/ call'.op = "NewPage")
       => result'.frame = NoFrame]_vars

\* C7: Unpin(p, d) returns false and changes no frame, page-table, free-list
\* or replacer state when p is not in the page table or its frame's pin_count
\* is 0; otherwise it returns true, decrements that frame's pin_count by one,
\* ORs d into is_dirty, changes nothing else of any frame, and the frame is
\* handed to the replacer exactly when its pin_count has reached 0.
C7_Unpin ==
  [][call'.op = "UnpinPage" =>
       LET p == call'.page_id
           d == call'.is_dirty
       IN  IF p \notin DOMAIN page_table_ \/ pages_[page_table_[p]].pin_count_ = 0
             THEN /\ ~result'.ok
                  /\ UNCHANGED <<pages_, page_table_, free_list_, replacer_>>
             ELSE LET f == page_table_[p]
                  IN  /\ result'.ok
                      /\ pages_'[f].pin_count_ = pages_[f].pin_count_ - 1
                      /\ pages_'[f].is_dirty_ = (pages_[f].is_dirty_ \/ d)
                      /\ pages_'[f].page_id_ = pages_[f].page_id_
                      /\ pages_'[f].data_ = pages_[f].data_
                      /\ \A g \in Frames \ {f} : pages_'[g] = pages_[g]
                      /\ IF pages_'[f].pin_count_ = 0
                           THEN f \in replacer_'.hash
                           ELSE replacer_' = replacer_]_vars

\* C7's case: Unpin(p, true) has released the last pin of p and has
\* returned true; p's frame is dirty and with the replacer.
C7_Witness ==
  /\ call.op = "UnpinPage"
  /\ call.is_dirty
  /\ result.ok
  /\ call.page_id \in DOMAIN page_table_
  /\ pages_[page_table_[call.page_id]].pin_count_ = 0
  /\ pages_[page_table_[call.page_id]].is_dirty_
  /\ Tracked(page_table_[call.page_id])

\* C8: Unpin issues no disk write, for either value of is_dirty.
C8_UnpinWritesNothing ==
  call.op = "UnpinPage" => io = <<>>

\* C9: DeletePage(p) returns true and changes nothing when p is not in the
\* page table, and returns false and changes nothing when p is resident with
\* pin_count # 0.
C9_DeleteRefused ==
  [][call'.op = "DeletePage" =>
       LET p == call'.page_id
       IN  /\ p \notin DOMAIN page_table_ =>
                /\ result'.ok
                /\ UNCHANGED <<pages_, page_table_, free_list_, replacer_,
                               disk, next_page_id>>
           /\ (p \in DOMAIN page_table_ /\ pages_[page_table_[p]].pin_count_ # 0) =>
                /\ ~result'.ok
                /\ UNCHANGED <<pages_, page_table_, free_list_, replacer_,
                               disk, next_page_id>>]_vars

\* C9's case: DeletePage of a resident, pinned page has returned false.
C9_Witness ==
  /\ call.op = "DeletePage"
  /\ ~result.ok
  /\ call.page_id \in DOMAIN page_table_
  /\ pages_[page_table_[call.page_id]].pin_count_ > 0

\* C10: after DeletePage(p) has returned true for a page p that was resident
\* with pin_count 0, p is not in the page table, its former frame is not
\* tracked by the replacer, the frame's page_id is invalid and the frame is in
\* the free list.
C10_Deleted ==
  [][(/\ call'.op = "DeletePage"
      /\ result'.ok
      /\ call'.page_id \in DOMAIN page_table_)
       => LET p == call'.page_id
              f == page_table_[p]
          IN  /\ p \notin DOMAIN page_table_'
              /\ f \notin replacer_'.hash
              /\ pages_'[f].page_id_ = INVALID_PAGE_ID
              /\ \E i \in DOMAIN free_list_' : free_list_'[i] = f]_vars

\* the page ids a log of disk manager calls writes
Written(log) == {e.page_id : e \in {x \in Issued(log) : x.fn = "WritePage"}}
\* the resident pages whose frame is dirty
DirtyResident == {p \in DOMAIN page_table_ : pages_[page_table_[p]].is_dirty_}

\* C11: FlushAllPages writes exactly the resident pages whose is_dirty is
\* true, each with its frame's bytes, and clears their flags, so that no frame
\* that was resident is dirty afterwards; clean resident pages are not written.
C11_FlushAllWritesDirty ==
  [][call'.op = "FlushAllPages" =>
       /\ Written(io') = DirtyResident
       /\ \A p \in DirtyResident :
            WritePage(p, pages_[page_table_[p]].data_) \in Issued(io')
       /\ \A p \in DOMAIN page_table_ : ~pages_'[page_table_[p]].is_dirty_]_vars

\* C12: FlushAllPages leaves the page table, every frame's page_id and
\* pin_count, the free list, and the replacer's contents and order unchanged.
C12_FlushAllKeepsState ==
  [][call'.op = "FlushAllPages" =>
       /\ page_table_' = page_table_
       /\ \A f \in Frames : /\ pages_'[f].page_id_ = pages_[f].page_id_
                            /\ pages_'[f].pin_count_ = pages_[f].pin_count_
       /\ free_list_' = free_list_
       /\ replacer_' = replacer_]_vars

\* C13: FlushPage(p) returns false, changes nothing and writes nothing when p
\* is not in the page table; when p is resident it writes the frame's bytes
\* under p whether or not the frame is dirty, clears is_dirty, returns true,
\* and leaves the page table, the pin counts, the free list and the replacer
\* unchanged.
C13_FlushPage ==
  [][call'.op = "FlushPage" =>
       LET p == call'.page_id
       IN  IF p \notin DOMAIN page_table_
             THEN /\ ~result'.ok
                  /\ io' = <<>>
                  /\ UNCHANGED <<pages_, page_table_, free_list_, replacer_, disk>>
             ELSE LET f == page_table_[p]
                  IN  /\ result'.ok
                      /\ io' = <<WritePage(p, pages_[f].data_)>>
                      /\ disk'[p] = pages_[f].data_
                      /\ ~pages_'[f].is_dirty_
                      /\ pages_'[f].pin_count_ = pages_[f].pin_count_
                      /\ pages_'[f].page_id_ = pages_[f].page_id_
                      /\ pages_'[f].data_ = pages_[f].data_
                      /\ \A g \in Frames \ {f} : pages_'[g] = pages_[g]
                      /\ UNCHANGED <<page_table_, free_list_, replacer_>>]_vars

\* C13's case: FlushPage(p) of a resident page has returned true and has
\* written the bytes a caller had put into the frame; the frame is clean.
C13_Witness ==
  /\ call.op = "FlushPage"
  /\ result.ok
  /\ call.page_id \in DOMAIN page_table_
  /\ io = <<WritePage(call.page_id, 1)>>
  /\ disk[call.page_id] = 1
  /\ ~pages_[page_table_[call.page_id]].is_dirty_

\* C14 (round trip through eviction): a page p created by NewPage, written
\* with bytes B by its creator, handed back with Unpin(p, true) and then
\* evicted by Fetch misses or NewPage calls for other pages, is returned by
\* the next Fetch(p) with bytes equal to B.
C14_RoundTrip ==
  [][\A p \in DOMAIN trip :
       (/\ call'.op = "FetchPage"
        /\ call'.page_id = p
        /\ trip[p].phase = "unpinned"
        /\ p \notin DOMAIN page_table_
        /\ result'.ok)
         => /\ pages_'[result'.frame].page_id_ = p
            /\ pages_'[result'.frame].data_ = trip[p].data]_vars

\* C14's case: a page created by NewPage, written with the pattern 1, handed
\* back dirty and evicted has been fetched again, and its frame holds 1.
C14_Witness ==
  /\ call.op = "FetchPage"
  /\ result.ok
  /\ call.page_id \in DOMAIN trip
  /\ trip[call.page_id] = [phase |-> "fetched", data |-> 1]
  /\ pages_[result.frame].data_ = 1

\* seq without its entries equal to frame_id
Without(seq, frame_id) == SelectSeq(seq, LAMBDA k : k # frame_id)

\* the ordering rule: the frames in the order of their tracking Unpin, of
\* those whose Unpin has not been followed by a Pin or a Victim of the frame
RECURSIVE Candidates(_)
Candidates(calls) ==
  IF calls = <<>> THEN <<>>
  ELSE LET c == calls[Len(calls)]
           before == Candidates(SubSeq(calls, 1, Len(calls) - 1))
       IN  IF c.fn = "Unpin"
             THEN IF \E i \in DOMAIN before : before[i] = c.frame_id
                    THEN before
                    ELSE Append(before, c.frame_id)
             ELSE Without(before, c.frame_id)

\* C15 (LRU order): in every sequence of Unpin, Pin and Victim calls, a Victim
\* call returns none when the ordering rule leaves no candidate, and otherwise
\* returns the candidate whose tracking Unpin is the earliest; an Unpin of a
\* tracked frame keeps its position and a Pin removes only its frame.
C15_LRUOrder ==
  \A i \in DOMAIN lru_calls :
    lru_calls[i].fn = "Victim" =>
      LET before == Candidates(SubSeq(lru_calls, 1, i - 1))
      IN  IF before = <<>>
            THEN ~lru_calls[i].ok
            ELSE lru_calls[i].ok /\ lru_calls[i].frame_id = Head(before)

\* the calls so far have never left more candidates than the capacity
WithinCapacity ==
  \A i \in DOMAIN lru_calls : Len(Candidates(SubSeq(lru_calls, 1, i))) <= capcity

\* the LRU order in the sequences of calls that stay within the capacity
LRUOrderWithinCapacity == WithinCapacity => C15_LRUOrder

\* C16 (no discard): Replacer.Unpin(f) of a frame f that is not tracked adds
\* f, increases Size by exactly one and removes no tracked frame, also when
\* the replacer tracks as many frames as its capacity.
C16_UnpinKeepsOthers ==
  [][(/\ Len(lru_calls') > Len(lru_calls)
      /\ lru_calls'[Len(lru_calls')].fn = "Unpin"
      /\ lru_calls'[Len(lru_calls')].frame_id \notin replacer_.hash)
       => /\ replacer_'.hash = replacer_.hash \cup {lru_calls'[Len(lru_calls')].frame_id}
          /\ Size(replacer_') = Size(replacer_) + 1]_vars

\* the concurrent calls of the threads have all returned
AllReturned == threads # <<>> /\ \A t \in Threads : threads[t].pc = "returned"

\* C17 (concurrent Fetch of a missing page): when two threads call Fetch(p) at
\* the same time for a page p that is not in the page table, with a frame
\* available and no other call interleaved, then in every interleaving exactly
\* one ReadPage(p) is issued, both calls return the same frame, the page table
\* has one entry for p, which maps it to that frame, and the frame's pin_count
\* is 2 afterwards.
C17_ConcurrentFetch ==
  AllReturned =>
    LET p == threads["A"].page_id
        f == threads["A"].frame
    IN  /\ threads["A"].reads + threads["B"].reads = 1
        /\ f # NoFrame
        /\ threads["B"].frame = f
        /\ p \in DOMAIN page_table_
        /\ page_table_[p] = f
        /\ pages_[f].page_id_ = p
        /\ pages_[f].pin_count_ = 2

\* C17's case: both threads have returned from Fetch(p); thread B ran first,
\* took a victim from the replacer and read p, and thread A found p resident.
C17_Witness ==
  /\ AllReturned
  /\ threads["B"].reads = 1
  /\ threads["A"].reads = 0
  /\ threads["A"].frame = threads["B"].frame
  /\ free_list_ = <<>>
  /\ Cardinality(DOMAIN page_table_) = pool_size_

\* C18 (NewPage selects before it allocates): when the free list is empty and
\* the replacer tracks no frame, NewPage returns none, does not call
\* AllocatePage, and changes nothing of the pool or of the disk manager.
C18_NewPageExhausted ==
  [][(/\ call'.op = "NewPage"
      /\ free_list_ = <<>>
      /\ Size(replacer_) = 0)
       => /\ result'.frame = NoFrame
          /\ io' = <<>>
          /\ UNCHANGED <<pages_, page_table_, free_list_, replacer_, disk,
                         next_page_id>>]_vars

\* C19 (the overflow branch is dead under the pool): no Replacer.Unpin(f)
\* that UnpinPage issues, which it does when the pin_count of p's frame f
\* reaches 0, finds f untracked while the replacer tracks as many frames as
\* its capacity.
C19_NoOverflowUnderPool ==
  [][(/\ call'.op = "UnpinPage"
      /\ result'.ok
      /\ pages_'[page_table_[call'.page_id]].pin_count_ <= 0)
       => ~(/\ page_table_[call'.page_id] \notin replacer_.hash
            /\ Cardinality(replacer_.hash) = capcity)]_vars

\* C19's case: UnpinPage has handed the last frame of the pool to the
\* replacer, which now tracks pool_size_ frames.
C19_Witness ==
  /\ call.op = "UnpinPage"
  /\ result.ok
  /\ call.page_id \in DOMAIN page_table_
  /\ pages_[page_table_[call.page_id]].pin_count_ = 0
  /\ replacer_.hash = Frames
  /\ Size(replacer_) = pool_size_
  /\ Head(replacer_.list) = page_table_[call.page_id]

\* frame f is in use: pinned, or a candidate of the replacer
InUse(f) == pages_[f].pin_count_ > 0 \/ Tracked(f)

\* C20 (unique residency): no two frames that are pinned or tracked by the
\* replacer carry the same valid page id.
C20_UniqueResidency ==
  \A f, g \in Frames :
    (f # g /\ InUse(f) /\ InUse(g) /\ pages_[f].page_id_ # INVALID_PAGE_ID)
      => pages_[f].page_id_ # pages_[g].page_id_
====
